---- MODULE Spec2Model ----
(***************************************************************************)
(* Book management system: the authentication core (pkg/auth: JWT issuer   *)
(* and validator, echo middleware) and the route tables of the API         *)
(* handlers that use it.                                                   *)
(*                                                                         *)
(* Strings that the code splits or parses are sequences of units: a unit   *)
(* is a space, a space-free word, or a compact three-segment JWT.  Time is *)
(* the wall clock read by time.Now(), counted in ticks of                  *)
(* 1/TicksPerSecond s since the start of the run.                          *)
(***************************************************************************)
EXTENDS Integers, Sequences, FiniteSets, TLC

VARIABLES
    jwt,      \* the JWT instance built by NewJWT: secret, expiryHours, refreshExpiryHours
    clock,    \* the wall clock, in ticks
    issued,   \* the result of the latest Generate* call and the principal it was made for
    vres,     \* the latest direct call of ValidateToken / ValidateRefreshToken and its result
    req,      \* the latest request served by a middleware chain and its outcome
    users,    \* table users: primary key id -> row, soft-deleted rows included
    books,    \* table books: primary key id -> row, soft-deleted rows included
    calls,    \* per connection: the API handler in progress, what it has read, its response
    gone,     \* the records whose delete request has been answered 200
    served    \* the number of API requests answered so far

vars == <<jwt, clock, issued, vres, req, users, books, calls, gone, served>>

authvars == <<jwt, issued, vres, req>>
dbvars == <<users, books, calls, gone, served>>

----------------------------------------------------------------------------
(* Bounds of the model *)

TicksPerSecond == 2      \* resolution of the clock below one second
MaxHours == 2            \* the clock runs over the hours 0 .. MaxHours
MaxOffset == 2           \* and, within each hour, over the first MaxOffset ticks
MaxDrift == 1            \* ticks that may pass between two time.Now() reads of one call
MaxPrefixLen == 2        \* units of an Authorization header in front of the token
MaxProcs == 2            \* API requests handled at the same time
MaxLimit == 2            \* largest limit and offset a list request carries
MaxRequests == 4         \* API requests in one run
MaxBooks == 2            \* rows of table books
MaxQuantity == 1         \* largest quantity a request carries

(* Program and library constants *)

SecondsPerHour == 3600   \* time.Hour
TrailingBits == 2        \* unused low bits of the last base64url character of a 32-byte HS256 MAC

HourTicks == SecondsPerHour * TicksPerSecond

----------------------------------------------------------------------------
(* Principals (auth.User) and configuration *)

Roles == {"admin", "member", "Admin"}

Principals ==
    { [id |-> "u1", email |-> "m@x", role |-> "member"],
      [id |-> "u2", email |-> "a@x", role |-> "admin"] }

NoPrincipal == [id |-> "", email |-> "", role |-> ""]

Secrets == {"k1"}
OtherSecret == "k2"
ExpiryChoices == {-1, 0, 1, 2}

----------------------------------------------------------------------------
(* Token wire format: header.claims.signature *)

NoPayload ==
    [keys |-> {}, user_id |-> "", email |-> "", role |-> "", exp |-> 0, iat |-> 0, nbf |-> 0, sub |-> ""]

\* jwt.NewNumericDate: truncates a time to whole seconds.
NewNumericDate(t) == t \div TicksPerSecond

\* json.Marshal of auth.Claims: user_id, email and role are always written,
\* the registered claims carry omitempty.
MarshalClaims(c) ==
    [keys |-> {"user_id", "email", "role", "exp", "iat", "nbf"} \cup (IF c.Subject = "" THEN {} ELSE {"sub"}),
     user_id |-> c.UserID, email |-> c.Email, role |-> c.Role,
     exp |-> c.ExpiresAt, iat |-> c.IssuedAt, nbf |-> c.NotBefore, sub |-> c.Subject]

\* json.Marshal of jwt.RegisteredClaims.
MarshalRegisteredClaims(c) ==
    [keys |-> {"exp", "iat", "nbf"} \cup (IF c.Subject = "" THEN {} ELSE {"sub"}),
     user_id |-> "", email |-> "", role |-> "",
     exp |-> c.ExpiresAt, iat |-> c.IssuedAt, nbf |-> c.NotBefore, sub |-> c.Subject]

\* json.Unmarshal into auth.Claims: a key the payload lacks leaves the zero value.
UnmarshalClaims(p) ==
    [UserID |-> IF "user_id" \in p.keys THEN p.user_id ELSE "",
     Email |-> IF "email" \in p.keys THEN p.email ELSE "",
     Role |-> IF "role" \in p.keys THEN p.role ELSE "",
     Subject |-> IF "sub" \in p.keys THEN p.sub ELSE "",
     has |-> p.keys \cap {"exp", "iat", "nbf"},
     ExpiresAt |-> IF "exp" \in p.keys THEN p.exp ELSE 0,
     IssuedAt |-> IF "iat" \in p.keys THEN p.iat ELSE 0,
     NotBefore |-> IF "nbf" \in p.keys THEN p.nbf ELSE 0]

\* json.Unmarshal into jwt.RegisteredClaims: unknown keys are ignored.
UnmarshalRegisteredClaims(p) ==
    [Subject |-> IF "sub" \in p.keys THEN p.sub ELSE "",
     has |-> p.keys \cap {"exp", "iat", "nbf"},
     ExpiresAt |-> IF "exp" \in p.keys THEN p.exp ELSE 0,
     IssuedAt |-> IF "iat" \in p.keys THEN p.iat ELSE 0,
     NotBefore |-> IF "nbf" \in p.keys THEN p.nbf ELSE 0]

NilClaims ==
    [UserID |-> "", Email |-> "", Role |-> "", Subject |-> "", has |-> {},
     ExpiresAt |-> 0, IssuedAt |-> 0, NotBefore |-> 0]

\* The MAC of a signing method over header and claims under a key (an ideal
\* MAC: distinct inputs give distinct values).
NoMAC == [alg |-> "", key |-> "", msg |-> NoPayload]
HMAC(alg, key, payload) == [alg |-> alg, key |-> key, msg |-> payload]

\* base64.RawURLEncoding of a MAC: the characters that carry the MAC and the
\* unused low bits of the last character, which the encoder writes as zero.
EncodeSegment(mac) == [mac |-> mac, pad |-> 0]

\* Parser.DecodeSegment without WithStrictDecoding: the unused bits are dropped.
DecodeSegment(seg) == seg.mac

NoSegment == [mac |-> NoMAC, pad |-> 0]
NoJWT == [alg |-> "", payload |-> NoPayload, sig |-> NoSegment]

(* Units of a string *)
SP == [k |-> "sp", w |-> " ", t |-> NoJWT]
Word(w) == [k |-> "word", w |-> w, t |-> NoJWT]
JWTUnit(t) == [k |-> "jwt", w |-> "", t |-> t]
EmptyString == <<>>

\* Token.SignedString: the compact serialisation signed with the key.
SignedString(alg, payload, key) ==
    << JWTUnit([alg |-> alg, payload |-> payload, sig |-> EncodeSegment(HMAC(alg, key, payload))]) >>

HMACMethods == {"HS256", "HS384", "HS512"}

----------------------------------------------------------------------------
(* JWT *)

NewJWT(secret, expiryHours, refreshExpiryHours) ==
    [secret |-> secret, expiryHours |-> expiryHours, refreshExpiryHours |-> refreshExpiryHours]

\* AccessClaims with the role left at the default of a new account.
AccessClaims_DefaultRole(j, user, now1, now2, now3) ==
    [UserID |-> user.id, Email |-> user.email, Role |-> "member", Subject |-> user.id,
     has |-> {"exp", "iat", "nbf"},
     ExpiresAt |-> NewNumericDate(now1 + HourTicks * j.expiryHours),
     IssuedAt |-> NewNumericDate(now2),
     NotBefore |-> NewNumericDate(now3)]

\* The claims built by GenerateAccessToken from three reads of time.Now().
AccessClaims(j, user, now1, now2, now3) ==
    [UserID |-> user.id, Email |-> user.email, Role |-> user.role, Subject |-> user.id,
     has |-> {"exp", "iat", "nbf"},
     ExpiresAt |-> NewNumericDate(now1 + HourTicks * j.expiryHours),
     IssuedAt |-> NewNumericDate(now2),
     NotBefore |-> NewNumericDate(now3)]

GenerateAccessTokenAt(j, user, now1, now2, now3) ==
    SignedString("HS256", MarshalClaims(AccessClaims(j, user, now1, now2, now3)), j.secret)

\* The claims built by GenerateRefreshToken.
RefreshClaims(j, user, now1, now2, now3) ==
    [Subject |-> user.id, has |-> {"exp", "iat", "nbf"},
     ExpiresAt |-> NewNumericDate(now1 + HourTicks * j.refreshExpiryHours),
     IssuedAt |-> NewNumericDate(now2),
     NotBefore |-> NewNumericDate(now3)]

\* GenerateRefreshTokenAt signing the full Claims struct instead of the
\* registered claims.
GenerateRefreshTokenAt_FullClaims(j, user, now1, now2, now3) ==
    SignedString("HS256",
                 MarshalClaims([UserID |-> user.id, Email |-> user.email, Role |-> user.role,
                                Subject |-> user.id, has |-> {"exp", "iat", "nbf"},
                                ExpiresAt |-> NewNumericDate(now1 + HourTicks * j.refreshExpiryHours),
                                IssuedAt |-> NewNumericDate(now2),
                                NotBefore |-> NewNumericDate(now3)]),
                 j.secret)

GenerateRefreshTokenAt(j, user, now1, now2, now3) ==
    SignedString("HS256", MarshalRegisteredClaims(RefreshClaims(j, user, now1, now2, now3)), j.secret)

\* ParseWithClaims without the signature verification (as ParseUnverified).
ParseWithClaims_Unverified(tokenString, key, now) ==
    IF Len(tokenString) # 1 \/ tokenString[1].k # "jwt" THEN "malformed"
    ELSE LET t == tokenString[1].t IN
         IF t.alg \notin HMACMethods THEN "unverifiable"
         ELSE IF "exp" \in t.payload.keys /\ ~(now < t.payload.exp * TicksPerSecond) THEN "expired"
         ELSE IF "nbf" \in t.payload.keys /\ now < t.payload.nbf * TicksPerSecond THEN "notyet"
         ELSE ""

\* ParseWithClaims without the expiry check (as WithoutClaimsValidation for exp).
ParseWithClaims_NoExpiry(tokenString, key, now) ==
    IF Len(tokenString) # 1 \/ tokenString[1].k # "jwt" THEN "malformed"
    ELSE LET t == tokenString[1].t IN
         IF t.alg \notin HMACMethods THEN "unverifiable"
         ELSE IF DecodeSegment(t.sig) # HMAC(t.alg, key, t.payload) THEN "signature"
         ELSE IF "nbf" \in t.payload.keys /\ now < t.payload.nbf * TicksPerSecond THEN "notyet"
         ELSE ""

\* ParseWithClaims taking the token as still valid at the instant of its expiry.
ParseWithClaims_ClosedWindow(tokenString, key, now) ==
    IF Len(tokenString) # 1 \/ tokenString[1].k # "jwt" THEN "malformed"
    ELSE LET t == tokenString[1].t IN
         IF t.alg \notin HMACMethods THEN "unverifiable"
         ELSE IF DecodeSegment(t.sig) # HMAC(t.alg, key, t.payload) THEN "signature"
         ELSE IF "exp" \in t.payload.keys /\ now > t.payload.exp * TicksPerSecond THEN "expired"
         ELSE IF "nbf" \in t.payload.keys /\ now < t.payload.nbf * TicksPerSecond THEN "notyet"
         ELSE ""

\* jwt.ParseWithClaims with the key function of ValidateToken and
\* ValidateRefreshToken, which returns the secret for every signing method.
\* The result is the error ("" for none) of parsing, signature verification
\* and time validation, in the library's order.
ParseWithClaims(tokenString, key, now) ==
    IF Len(tokenString) # 1 \/ tokenString[1].k # "jwt" THEN "malformed"
    ELSE LET t == tokenString[1].t IN
         IF t.alg \notin HMACMethods THEN "unverifiable"
         ELSE IF DecodeSegment(t.sig) # HMAC(t.alg, key, t.payload) THEN "signature"
         ELSE IF "exp" \in t.payload.keys /\ ~(now < t.payload.exp * TicksPerSecond) THEN "expired"
         ELSE IF "nbf" \in t.payload.keys /\ now < t.payload.nbf * TicksPerSecond THEN "notyet"
         ELSE ""

ValidateToken(j, tokenString, now) ==
    LET err == ParseWithClaims(tokenString, j.secret, now) IN
    IF err # "" THEN [err |-> err, claims |-> NilClaims]
    ELSE [err |-> "", claims |-> UnmarshalClaims(tokenString[1].t.payload)]

ValidateRefreshToken(j, tokenString, now) ==
    LET err == ParseWithClaims(tokenString, j.secret, now) IN
    IF err # "" THEN [err |-> err, subject |-> ""]
    ELSE [err |-> "", subject |-> UnmarshalRegisteredClaims(tokenString[1].t.payload).Subject]

----------------------------------------------------------------------------
(* echo.Context: the request's Authorization header, the per-request store  *)
(* and the response written so far.  handled, validated, verr and seen      *)
(* record what happened: calls of the wrapped handler, calls of the         *)
(* validator, the validator's error and what the handler read back.         *)

UserContextKey == "user"

NilValue == [type |-> "nil", claims |-> NilClaims, str |-> ""]
ClaimsValue(c) == [type |-> "Claims", claims |-> c, str |-> ""]
StringValue(s) == [type |-> "string", claims |-> NilClaims, str |-> s]

EmptyStore == [k \in {} |-> NilValue]

\* c.Get
Get(store, key) == IF key \in DOMAIN store THEN store[key] ELSE NilValue

\* c.Set
Set(store, key, val) == [k \in DOMAIN store \cup {key} |-> IF k = key THEN val ELSE store[k]]

NewContext(header, store) ==
    [header |-> header, store |-> store, status |-> 0, message |-> "", next |-> FALSE,
     handled |-> 0, validated |-> 0, verr |-> "", seen |-> NilValue]

\* c.JSON(status, map[string]string{"message": message})
JSON(c, status, message) == [c EXCEPT !.status = status, !.message = message, !.next = FALSE]

StatusOK == 200
StatusUnauthorized == 401
StatusForbidden == 403

\* strings.SplitN(s, " ", 2)
FirstSpace(s) ==
    IF \E i \in 1..Len(s) : s[i] = SP
    THEN CHOOSE i \in 1..Len(s) : s[i] = SP /\ \A k \in 1..(i - 1) : s[k] # SP
    ELSE 0

SplitN2(s) ==
    IF FirstSpace(s) = 0 THEN <<s>>
    ELSE <<SubSeq(s, 1, FirstSpace(s) - 1), SubSeq(s, FirstSpace(s) + 1, Len(s))>>

\* extractToken without the comparison of the scheme with "Bearer".
extractToken_AnyScheme(c) ==
    LET authHeader == c.header IN
    IF authHeader = EmptyString THEN EmptyString
    ELSE LET parts == SplitN2(authHeader) IN
         IF Len(parts) # 2 THEN EmptyString
         ELSE parts[2]

extractToken(c) ==
    LET authHeader == c.header IN
    IF authHeader = EmptyString THEN EmptyString
    ELSE LET parts == SplitN2(authHeader) IN
         IF Len(parts) # 2 \/ parts[1] # <<Word("Bearer")>> THEN EmptyString
         ELSE parts[2]

\* GetUserFromContext without the type assertion.
GetUserFromContext_Unchecked(c) == Get(c.store, UserContextKey)

\* The claims pointer stored under the key, or nil (NilValue).
GetUserFromContext(c) ==
    LET user == Get(c.store, UserContextKey) IN
    IF user.type # "Claims" THEN NilValue ELSE user

\* RequireAuth telling an expired token apart in its message.
RequireAuth_ExpiredMessage(j, c, now) ==
    LET token == extractToken(c) IN
    IF token = EmptyString
    THEN JSON(c, StatusUnauthorized, "Authorization header is required")
    ELSE LET v == ValidateToken(j, token, now)
             called == [c EXCEPT !.validated = @ + 1, !.verr = v.err]
         IN IF v.err = "expired"
            THEN JSON(called, StatusUnauthorized, "Token expired")
            ELSE IF v.err # ""
            THEN JSON(called, StatusUnauthorized, "Invalid or expired token")
            ELSE [called EXCEPT !.store = Set(c.store, UserContextKey, ClaimsValue(v.claims)),
                                !.next = TRUE]

\* One call of the function RequireAuth wraps around next: the context it
\* leaves, with next set when it went on to call next(c).
RequireAuth(j, c, now) ==
    LET token == extractToken(c) IN
    IF token = EmptyString
    THEN JSON(c, StatusUnauthorized, "Authorization header is required")
    ELSE LET v == ValidateToken(j, token, now)
             called == [c EXCEPT !.validated = @ + 1, !.verr = v.err]
         IN IF v.err # ""
            THEN JSON(called, StatusUnauthorized, "Invalid or expired token")
            ELSE [called EXCEPT !.store = Set(c.store, UserContextKey, ClaimsValue(v.claims)),
                                !.next = TRUE]

\* RequireRole checking that the request is authenticated, and no role.
RequireRole_AnyRole(role, c) ==
    LET user == GetUserFromContext(c) IN
    IF user = NilValue
    THEN JSON(c, StatusUnauthorized, "Authentication required")
    ELSE [c EXCEPT !.next = TRUE]

\* RequireRole with a role hierarchy: admin passes every role check.
RequireRole_Hierarchy(role, c) ==
    LET user == GetUserFromContext(c) IN
    IF user = NilValue
    THEN JSON(c, StatusUnauthorized, "Authentication required")
    ELSE IF user.claims.Role # role /\ user.claims.Role # "admin"
    THEN JSON(c, StatusForbidden, "Insufficient permissions")
    ELSE [c EXCEPT !.next = TRUE]

\* RequireRole without the check that the context holds a user.
RequireRole_NoUserCheck(role, c) ==
    LET user == GetUserFromContext(c) IN
    IF user.claims.Role # role
    THEN JSON(c, StatusForbidden, "Insufficient permissions")
    ELSE [c EXCEPT !.next = TRUE]

\* RequireRole reading the user that the request on the first connection
\* attached (a middleware that keeps the last claims in a field).
RequireRole_Shared(role, c) ==
    LET user == GetUserFromContext(calls[1].c) IN
    IF user = NilValue
    THEN JSON(c, StatusUnauthorized, "Authentication required")
    ELSE IF user.claims.Role # role
    THEN JSON(c, StatusForbidden, "Insufficient permissions")
    ELSE [c EXCEPT !.next = TRUE]

\* RequireRole comparing the wrong claim with the required role.
RequireRole_UserID(role, c) ==
    LET user == GetUserFromContext(c) IN
    IF user = NilValue
    THEN JSON(c, StatusUnauthorized, "Authentication required")
    ELSE IF user.claims.UserID # role
    THEN JSON(c, StatusForbidden, "Insufficient permissions")
    ELSE [c EXCEPT !.next = TRUE]

RequireRole(role, c) ==
    LET user == GetUserFromContext(c) IN
    IF user = NilValue
    THEN JSON(c, StatusUnauthorized, "Authentication required")
    ELSE IF user.claims.Role # role
    THEN JSON(c, StatusForbidden, "Insufficient permissions")
    ELSE [c EXCEPT !.next = TRUE]

(* Middleware values, as a route registers them *)
RequireAuthMw == [mw |-> "RequireAuth", role |-> ""]
RequireRoleMw(role) == [mw |-> "RequireRole", role |-> role]
\* RequireAdmin requiring the role of an ordinary account.
RequireAdmin_Member == RequireRoleMw("member")

RequireAdmin == RequireRoleMw("admin")

\* The handler a chain wraps: it reads the identity back from the context
\* and answers 200.
Handler(c) ==
    [c EXCEPT !.handled = @ + 1, !.seen = GetUserFromContext(c),
              !.status = StatusOK, !.message = "OK", !.next = FALSE]

\* echo's application of a route's middleware, first registered outermost.
RECURSIVE Run(_, _, _, _, _)
Run(j, chain, i, c, now) ==
    IF i > Len(chain) THEN Handler(c)
    ELSE LET r == IF chain[i].mw = "RequireAuth" THEN RequireAuth(j, c, now)
                  ELSE RequireRole(chain[i].role, c)
         IN IF r.next THEN Run(j, chain, i + 1, [r EXCEPT !.next = FALSE], now) ELSE r

(* Route tables *)
UserAPISetup ==
    [r \in {"POST /users", "GET /users", "GET /users/:id", "PUT /users/:id", "DELETE /users/:id"}
        |-> <<RequireAdmin>>]

BookAPISetup ==
    [r \in {"POST /books", "GET /books", "GET /books/:id", "GET /books/search",
            "GET /books/available", "PUT /books/:id", "DELETE /books/:id",
            "PUT /books/:id/quantity"}
        |-> IF r \in {"POST /books", "PUT /books/:id", "DELETE /books/:id", "PUT /books/:id/quantity"}
            THEN <<RequireAdmin>> ELSE <<>>]

AuthAPISetup ==
    [r \in {"POST /auth/register", "POST /auth/login", "POST /auth/refresh", "GET /auth/profile"}
        |-> IF r = "GET /auth/profile" THEN <<RequireAuthMw>> ELSE <<>>]

Routes == DOMAIN UserAPISetup \cup DOMAIN BookAPISetup \cup DOMAIN AuthAPISetup

RouteChain(r) ==
    IF r \in DOMAIN UserAPISetup THEN UserAPISetup[r]
    ELSE IF r \in DOMAIN BookAPISetup THEN BookAPISetup[r]
    ELSE AuthAPISetup[r]

----------------------------------------------------------------------------
(* What a client can present *)

BaseTokens(iss) == {t \in {iss.access, iss.refresh} : t # EmptyString}

\* The token with its signature segment replaced.
WithSegment(tok, seg) == << JWTUnit([tok[1].t EXCEPT !.sig = seg]) >>

\* The token with its claims replaced and the signature segment kept.
WithPayload(tok, payload) == << JWTUnit([tok[1].t EXCEPT !.payload = payload]) >>

\* Signature segments other than the token's own: the same MAC with the unused
\* bits of the last character changed, the MAC under another secret, the MAC
\* of other claims, and no signature at all.
OtherSegments(tok) ==
    LET t == tok[1].t IN
    ( { [mac |-> DecodeSegment(t.sig), pad |-> p] : p \in 0..(2^TrailingBits - 1) }
      \cup { EncodeSegment(HMAC(t.alg, OtherSecret, t.payload)),
             EncodeSegment(HMAC(t.alg, t.sig.mac.key, [t.payload EXCEPT !.sub = "u0"])),
             NoSegment } )
    \ {t.sig}

Garbage == <<Word("garbage")>>

Presentable(iss) ==
    BaseTokens(iss)
    \cup UNION { { WithSegment(tok, seg) : seg \in OtherSegments(tok) } : tok \in BaseTokens(iss) }
    \cup { WithPayload(tok, [tok[1].t.payload EXCEPT !.role = "admin", !.keys = @ \cup {"role"}]) :
              tok \in BaseTokens(iss) }
    \cup { << JWTUnit([tok[1].t EXCEPT !.alg = "none", !.sig = NoSegment]) >> : tok \in BaseTokens(iss) }
    \cup { Garbage }

RECURSIVE SeqsUpTo(_, _)
SeqsUpTo(S, n) ==
    IF n = 0 THEN { <<>> }
    ELSE SeqsUpTo(S, n - 1) \cup { Append(q, x) : q \in { r \in SeqsUpTo(S, n - 1) : Len(r) = n - 1 }, x \in S }

Prefixes == SeqsUpTo({Word("Bearer"), Word("bearer"), SP}, MaxPrefixLen)

\* Authorization header values: every prefix in front of nothing or of one
\* token, and "Bearer " in front of everything presentable.
Headers(iss) ==
    { pre \o suf : pre \in Prefixes,
                   suf \in {EmptyString} \cup (IF iss.access # EmptyString THEN {iss.access} ELSE {Garbage}) }
    \cup { <<Word("Bearer"), SP>> \o tok : tok \in Presentable(iss) }

\* Headers of the requests sent to the routes.
RouteHeaders(iss) ==
    { EmptyString } \cup { <<Word("Bearer"), SP>> \o tok : tok \in Presentable(iss) }

\* Stores a context can hold when a middleware is called on it directly.
PresetClaims ==
    { [NilClaims EXCEPT !.UserID = "u9", !.Subject = "u9", !.Role = r] : r \in Roles }

PresetStores ==
    { EmptyStore,
      [k \in {UserContextKey} |-> StringValue("u9")],
      [k \in {"other"} |-> ClaimsValue([NilClaims EXCEPT !.Role = "admin"])] }
    \cup { [k \in {UserContextKey} |-> ClaimsValue(cl)] : cl \in PresetClaims }

DirectChains ==
    { <<>>, <<RequireAuthMw>> }
    \cup { <<RequireAuthMw, RequireRoleMw(r)>> : r \in Roles }
    \cup { <<RequireRoleMw(r)>> : r \in Roles }

----------------------------------------------------------------------------
(* The relational store (init.sql) and the repositories over it.  A table is *)
(* a function from primary key to row; deleted_date is kept as the flag      *)
(* deleted (NULL or set).  Columns that no handler decides on (names,        *)
(* updated_date) are left out.                                               *)

StatusCreated == 201
StatusBadRequest == 400
StatusNotFound == 404
StatusConflict == 409
StatusInternalServerError == 500
ResponseExpiryHours == 24

NoUser ==
    [id |-> "", email |-> "", password_hash |-> "", role |-> "", status |-> "", created |-> 0,
     deleted |-> FALSE]
NoUsers == [i \in {} |-> NoUser]

\* The rows a query with "deleted_date IS NULL" sees.
LiveUsers(tbl) == { tbl[i] : i \in { k \in DOMAIN tbl : ~tbl[k].deleted } }

\* INSERT INTO users: the primary key and the UNIQUE constraint on email are
\* checked against every row, soft-deleted ones included.
UserRepository_Create(tbl, user, now) ==
    IF user.id \in DOMAIN tbl \/ \E i \in DOMAIN tbl : tbl[i].email = user.email
    THEN [err |-> "duplicate key", tbl |-> tbl]
    ELSE [err |-> "",
          tbl |-> [i \in DOMAIN tbl \cup {user.id} |->
                      IF i = user.id THEN [user EXCEPT !.created = now] ELSE tbl[i]]]

UserRepository_GetByID(tbl, id) ==
    IF id \in DOMAIN tbl /\ ~tbl[id].deleted THEN [err |-> "", user |-> tbl[id]]
    ELSE [err |-> "record not found", user |-> NoUser]

\* GetByEmail without the condition on deleted_date.
UserRepository_GetByEmail_Deleted(tbl, email) ==
    IF \E i \in DOMAIN tbl : tbl[i].email = email
    THEN [err |-> "", user |-> tbl[CHOOSE i \in DOMAIN tbl : tbl[i].email = email]]
    ELSE [err |-> "record not found", user |-> NoUser]

\* SELECT ... WHERE email = ? AND deleted_date IS NULL: email is UNIQUE, at
\* most one row matches.
UserRepository_GetByEmail(tbl, email) ==
    IF \E u \in LiveUsers(tbl) : u.email = email
    THEN [err |-> "", user |-> CHOOSE u \in LiveUsers(tbl) : u.email = email]
    ELSE [err |-> "record not found", user |-> NoUser]

UserRepository_EmailExists(tbl, email) == \E u \in LiveUsers(tbl) : u.email = email

\* db.Save: UPDATE of every column, deleted_date included, WHERE id = user.id;
\* an INSERT when no row has that id.
UserRepository_Update(tbl, user) ==
    [i \in DOMAIN tbl \cup {user.id} |-> IF i = user.id THEN user ELSE tbl[i]]

\* UPDATE users SET deleted_date = now WHERE id = ? AND deleted_date IS NULL
UserRepository_Delete(tbl, id) ==
    [i \in DOMAIN tbl |-> IF i = id /\ ~tbl[i].deleted THEN [tbl[i] EXCEPT !.deleted = TRUE] ELSE tbl[i]]

UserRepository_Count(tbl) == Cardinality(LiveUsers(tbl))

\* ORDER BY created_date DESC: every order of the rows with no row in front of
\* a row created later (rows created at the same instant come in any order).
RECURSIVE Orders(_)
Orders(rows) ==
    IF rows = {} THEN { <<>> }
    ELSE UNION { { <<r>> \o q : q \in Orders(rows \ {r}) } :
                 r \in { x \in rows : \A y \in rows : y.created <= x.created } }

\* LIMIT limit OFFSET offset
Page(q, limit, offset) ==
    IF offset >= Len(q) THEN <<>>
    ELSE SubSeq(q, offset + 1, IF offset + limit < Len(q) THEN offset + limit ELSE Len(q))

\* The possible results of the three list queries.
UserRepository_GetAll(tbl, limit, offset) ==
    { Page(q, limit, offset) : q \in Orders(LiveUsers(tbl)) }

UserRepository_GetByRole(tbl, role, limit, offset) ==
    { Page(q, limit, offset) : q \in Orders({ u \in LiveUsers(tbl) : u.role = role }) }

UserRepository_GetByStatus(tbl, status, limit, offset) ==
    { Page(q, limit, offset) : q \in Orders({ u \in LiveUsers(tbl) : u.status = status }) }

\* generateID: the wall clock formatted to the second, then "-" and the
\* layout "000000", which holds no reference element and is written as it is.
\* bcrypt: the hash of a password, and its comparison with a password (an
\* ideal hash: a hash matches the password it was generated from and no other).
GenerateFromPassword(password) == "$2a$" \o password
CompareHashAndPassword(hash, password) ==
    IF hash = GenerateFromPassword(password) THEN "" ELSE "hashedPassword is not the hash of the given password"

generateID(now) == ToString(now \div TicksPerSecond) \o "-000000"

\* strconv.Atoi of a query parameter, the error dropped: 0 unless a number.
Num(n) == [s |-> "num", n |-> n]
NotNum(str) == [s |-> str, n |-> 0]
Atoi(param) == IF param.s = "num" THEN param.n ELSE 0

DefaultLimit == 20

(* Table books *)
Nil == [nil |-> TRUE, v |-> ""]
Ptr(v) == [nil |-> FALSE, v |-> v]

NoBook ==
    [id |-> "", title |-> "", isbn |-> Nil, quantity |-> 0, available_quantity |-> 0, status |-> "",
     created |-> 0, deleted |-> FALSE]
NoBooks == [i \in {} |-> NoBook]

LiveBooks(tbl) == { tbl[i] : i \in { k \in DOMAIN tbl : ~tbl[k].deleted } }

\* The UNIQUE constraint on isbn: no other row, soft-deleted ones included,
\* holds the same non-NULL value.
ISBNTaken(tbl, book) ==
    ~book.isbn.nil /\ \E i \in DOMAIN tbl \ {book.id} : tbl[i].isbn = book.isbn

\* INSERT INTO books
BookRepository_Create(tbl, book, now) ==
    IF book.id \in DOMAIN tbl \/ ISBNTaken(tbl, book)
    THEN [err |-> "duplicate key", tbl |-> tbl]
    ELSE [err |-> "",
          tbl |-> [i \in DOMAIN tbl \cup {book.id} |->
                      IF i = book.id THEN [book EXCEPT !.created = now] ELSE tbl[i]]]

BookRepository_GetByID(tbl, id) ==
    IF id \in DOMAIN tbl /\ ~tbl[id].deleted THEN [err |-> "", book |-> tbl[id]]
    ELSE [err |-> "record not found", book |-> NoBook]

BookRepository_ISBNExists(tbl, isbn) == \E b \in LiveBooks(tbl) : b.isbn = Ptr(isbn)

\* db.Save: UPDATE of every column, deleted_date included, WHERE id = book.id;
\* an INSERT when no row has that id.
BookRepository_Update(tbl, book) ==
    IF ISBNTaken(tbl, book) THEN [err |-> "duplicate key", tbl |-> tbl]
    ELSE [err |-> "", tbl |-> [i \in DOMAIN tbl \cup {book.id} |-> IF i = book.id THEN book ELSE tbl[i]]]

\* UPDATE books SET deleted_date = now WHERE id = ? AND deleted_date IS NULL
BookRepository_Delete(tbl, id) ==
    [i \in DOMAIN tbl |-> IF i = id /\ ~tbl[i].deleted THEN [tbl[i] EXCEPT !.deleted = TRUE] ELSE tbl[i]]

\* UPDATE books SET quantity = ?, available_quantity = ? WHERE id = ? AND deleted_date IS NULL
BookRepository_UpdateQuantity(tbl, id, quantity, availableQuantity) ==
    [i \in DOMAIN tbl |->
        IF i = id /\ ~tbl[i].deleted
        THEN [tbl[i] EXCEPT !.quantity = quantity, !.available_quantity = availableQuantity]
        ELSE tbl[i]]

\* uuid.New().String(): an id no row holds.
NewUUID(tbl) == "b" \o ToString(Cardinality(DOMAIN tbl) + 1)

(* API handlers in progress *)
Procs == 1 .. MaxProcs

NoResponse == [status |-> 0, message |-> "", list |-> <<>>, total |-> 0, limit |-> 0, offset |-> 0,
               access |-> EmptyString, refresh |-> EmptyString, expires_at |-> 0]
NoArgs == [id |-> "", email |-> "", role |-> "", status |-> "", limit |-> NotNum(""), offset |-> NotNum(""),
           has |-> {}, title |-> "", isbn |-> Nil, quantity |-> 0, available_quantity |-> 0,
           password |-> "", refresh_token |-> EmptyString]
NoHandlerCall ==
    [op |-> "", pc |-> "", args |-> NoArgs, user |-> NoUser, book |-> NoBook, resp |-> NoResponse,
     chain |-> <<>>, i |-> 0, now |-> 0, c |-> NewContext(EmptyString, EmptyStore)]

\* c.JSON(status, models.Response{Message: message}) and return.
Respond(call, status, message) ==
    [call EXCEPT !.pc = "done", !.resp = [NoResponse EXCEPT !.status = status, !.message = message]]

----------------------------------------------------------------------------
(* State *)

NoIssue == [fn |-> "", user |-> NoPrincipal, access |-> EmptyString, refresh |-> EmptyString]
NoCall == [fn |-> "", token |-> EmptyString, now |-> 0, err |-> "", claims |-> NilClaims, subject |-> ""]
NoRequest ==
    [kind |-> "", route |-> "", chain |-> <<>>, now |-> 0, preset |-> EmptyStore,
     c |-> NewContext(EmptyString, EmptyStore)]

Hour(t) == t \div HourTicks
Offset(t) == t % HourTicks

\* The store as init.sql leaves it, and no request in progress.
InitStore ==
    /\ users = NoUsers
    /\ books = NoBooks
    /\ calls = [p \in Procs |-> NoHandlerCall]
    /\ gone = {}
    /\ served = 0

Init ==
    /\ jwt \in { NewJWT(s, e, r) : s \in Secrets, e \in ExpiryChoices, r \in ExpiryChoices }
    /\ clock = 0
    /\ issued = NoIssue
    /\ vres = NoCall
    /\ req = NoRequest
    /\ InitStore

\* No call is in progress.
Idle == vres = NoCall /\ req = NoRequest

(* The wall clock *)
Tick ==
    /\ Idle
    /\ Offset(clock) < MaxOffset
    /\ clock' = clock + 1
    /\ UNCHANGED <<jwt, issued, vres, req, dbvars>>

TickHour ==
    /\ Idle
    /\ Hour(clock) < MaxHours
    /\ clock' = clock + HourTicks
    /\ UNCHANGED <<jwt, issued, vres, req, dbvars>>

\* The wall clock is set back (time.Now() is not monotonic across calls).
ClockStepBack ==
    /\ Idle
    /\ Offset(clock) > 0
    /\ clock' = clock - 1
    /\ UNCHANGED <<jwt, issued, vres, req, dbvars>>

(* Issuing *)
GenerateAccessToken ==
    /\ Idle
    /\ \E user \in Principals, d1, d2 \in 0..MaxDrift :
        /\ d1 + d2 <= MaxDrift
        /\ Offset(clock) + d1 + d2 <= MaxOffset
        /\ issued' = [fn |-> "access", user |-> user,
                      access |-> GenerateAccessTokenAt(jwt, user, clock, clock + d1, clock + d1 + d2),
                      refresh |-> EmptyString]
        /\ clock' = clock + d1 + d2
        /\ UNCHANGED <<jwt, vres, req, dbvars>>

GenerateRefreshToken ==
    /\ Idle
    /\ \E user \in Principals, d1, d2 \in 0..MaxDrift :
        /\ d1 + d2 <= MaxDrift
        /\ Offset(clock) + d1 + d2 <= MaxOffset
        /\ issued' = [fn |-> "refresh", user |-> user,
                      access |-> EmptyString,
                      refresh |-> GenerateRefreshTokenAt(jwt, user, clock, clock + d1, clock + d1 + d2)]
        /\ clock' = clock + d1 + d2
        /\ UNCHANGED <<jwt, vres, req, dbvars>>

GenerateTokenPair ==
    /\ Idle
    /\ \E user \in Principals, d1, d2, d3, d4, d5 \in 0..MaxDrift :
        /\ d1 + d2 + d3 + d4 + d5 <= MaxDrift
        /\ Offset(clock) + d1 + d2 + d3 + d4 + d5 <= MaxOffset
        /\ LET a1 == clock
               a2 == a1 + d1
               a3 == a2 + d2
               r1 == a3 + d3
               r2 == r1 + d4
               r3 == r2 + d5
           IN /\ issued' = [fn |-> "pair", user |-> user,
                            access |-> GenerateAccessTokenAt(jwt, user, a1, a2, a3),
                            refresh |-> GenerateRefreshTokenAt(jwt, user, r1, r2, r3)]
              /\ clock' = r3
        /\ UNCHANGED <<jwt, vres, req, dbvars>>

(* Validating *)
CallValidateToken ==
    /\ Idle
    /\ \E tok \in Presentable(issued) :
          LET v == ValidateToken(jwt, tok, clock) IN
          vres' = [fn |-> "ValidateToken", token |-> tok, now |-> clock,
                   err |-> v.err, claims |-> v.claims, subject |-> ""]
    /\ UNCHANGED <<jwt, clock, issued, req, dbvars>>

CallValidateRefreshToken ==
    /\ Idle
    /\ \E tok \in Presentable(issued) :
          LET v == ValidateRefreshToken(jwt, tok, clock) IN
          vres' = [fn |-> "ValidateRefreshToken", token |-> tok, now |-> clock,
                   err |-> v.err, claims |-> NilClaims, subject |-> v.subject]
    /\ UNCHANGED <<jwt, clock, issued, req, dbvars>>

(* Requests *)
AuthFirst(chain) == Len(chain) > 0 /\ chain[1].mw = "RequireAuth"

\* A request to a registered route: echo hands the chain a fresh context.
Serve ==
    /\ Idle
    /\ \E route \in Routes, header \in RouteHeaders(issued) :
          req' = [kind |-> "route", route |-> route, chain |-> RouteChain(route), now |-> clock,
                  preset |-> EmptyStore,
                  c |-> Run(jwt, RouteChain(route), 1, NewContext(header, EmptyStore), clock)]
    /\ UNCHANGED <<jwt, clock, issued, vres, dbvars>>

\* A middleware composition called on a prepared context.
Invoke ==
    /\ Idle
    /\ \E chain \in DirectChains, header \in Headers(issued), store \in PresetStores :
          /\ ~AuthFirst(chain) =>
                 header \in {EmptyString} \cup { <<Word("Bearer"), SP>> \o t : t \in BaseTokens(issued) }
          /\ AuthFirst(chain) =>
                 store \in {EmptyStore, [k \in {UserContextKey} |-> StringValue("u9")]}
          /\ req' = [kind |-> "direct", route |-> "", chain |-> chain, now |-> clock,
                     preset |-> store,
                     c |-> Run(jwt, chain, 1, NewContext(header, store), clock)]
    /\ UNCHANGED <<jwt, clock, issued, vres, dbvars>>

\* The caller takes the result; the core keeps nothing of a finished call.
Done ==
    /\ vres # NoCall \/ req # NoRequest
    /\ vres' = NoCall /\ req' = NoRequest
    /\ UNCHANGED <<jwt, clock, issued, dbvars>>

(* The issuer and the validator, for every configuration *)
Next ==
    \/ Tick
    \/ TickHour
    \/ ClockStepBack
    \/ GenerateAccessToken
    \/ GenerateRefreshToken
    \/ GenerateTokenPair
    \/ CallValidateToken
    \/ CallValidateRefreshToken
    \/ Done

Spec == Init /\ [][Next]_vars

(* The middleware in front of the handlers, for one configuration *)
MwExpiryHours == 1
MwRefreshExpiryHours == 2

InitMw ==
    /\ jwt \in { NewJWT(s, MwExpiryHours, MwRefreshExpiryHours) : s \in Secrets }
    /\ clock = 0
    /\ issued = NoIssue
    /\ vres = NoCall
    /\ req = NoRequest
    /\ InitStore

NextMw ==
    \/ Next
    \/ Serve
    \/ Invoke

SpecMw == InitMw /\ [][NextMw]_vars

----------------------------------------------------------------------------
(* The user handlers (AuthAPI.register and those of UserAPI) over the store. *)
(* A handler is a sequence of steps, one per statement the database         *)
(* executes; steps of requests on different connections interleave.         *)

Emails == {"a@x", "m@x"}
Password == "pw"
RoleInputs == {"admin", "root"}
StatusInputs == {"inactive", "banned"}
UnknownID == "unknown"

\* Connection p takes the next request: it is the first one without a request
\* in progress, and every response written has been read.
InProgress == { q \in Procs : calls[q] # NoHandlerCall }

Free(p) ==
    /\ calls[p] = NoHandlerCall
    /\ served + Cardinality(InProgress) < MaxRequests
    /\ \A q \in Procs : calls[q].pc # "done"
    /\ \A q \in 1 .. (p - 1) : calls[q] # NoHandlerCall
    /\ req = NoRequest

\* A principal that always has the role of a new account.
AsPrincipal_Member(user) == [id |-> user.id, email |-> user.email, role |-> "member"]

\* The user as a principal (models.User implements auth.User).
AsPrincipal(user) == [id |-> user.id, email |-> user.email, role |-> user.role]

register ==
    \E p \in Procs, email \in Emails :
        /\ Free(p)
        /\ LET call == [NoHandlerCall EXCEPT !.op = "register", !.args.email = email,
                                             !.args.password = Password] IN
           calls' = [calls EXCEPT ![p] =
                        IF UserRepository_EmailExists(users, email)
                        THEN Respond(call, StatusConflict, "Email already registered")
                        ELSE [call EXCEPT !.pc = "create"]]
        /\ UNCHANGED <<authvars, clock, users, books, gone, served>>

registerCreate ==
    \E p \in Procs :
        /\ calls[p].op = "register" /\ calls[p].pc = "create"
        /\ \A q \in Procs : calls[q].pc # "done"
        /\ LET user == [NoUser EXCEPT !.id = generateID(clock), !.email = calls[p].args.email,
                                      !.password_hash = GenerateFromPassword(calls[p].args.password),
                                      !.role = "member", !.status = "active"]
               r == UserRepository_Create(users, user, clock)
           IN IF r.err # ""
              THEN /\ calls' = [calls EXCEPT ![p] =
                                   Respond(@, StatusInternalServerError, "Error creating user account")]
                   /\ users' = users
              ELSE /\ users' = r.tbl
                   /\ calls' = [calls EXCEPT ![p] =
                                   [Respond(@, StatusCreated, "Account created successfully") EXCEPT
                                       !.user = r.tbl[user.id],
                                       !.resp.access = GenerateAccessTokenAt(jwt, AsPrincipal(user), clock, clock, clock),
                                       !.resp.refresh = GenerateRefreshTokenAt(jwt, AsPrincipal(user), clock, clock, clock),
                                       !.resp.expires_at = clock + ResponseExpiryHours * HourTicks]]
        /\ UNCHANGED <<authvars, clock, books, gone, served>>

createUser ==
    \E p \in Procs, email \in Emails, role \in RoleInputs :
        /\ Free(p)
        /\ LET call == [NoHandlerCall EXCEPT !.op = "createUser", !.args.email = email, !.args.role = role,
                                             !.args.password = Password] IN
           calls' = [calls EXCEPT ![p] =
                        IF UserRepository_EmailExists(users, email)
                        THEN Respond(call, StatusConflict, "Email already exists")
                        ELSE [call EXCEPT !.pc = "create"]]
        /\ UNCHANGED <<authvars, clock, users, books, gone, served>>

createUserCreate ==
    \E p \in Procs :
        /\ calls[p].op = "createUser" /\ calls[p].pc = "create"
        /\ \A q \in Procs : calls[q].pc # "done"
        /\ LET user == [NoUser EXCEPT !.id = generateID(clock), !.email = calls[p].args.email,
                                      !.password_hash = GenerateFromPassword(calls[p].args.password),
                                      !.role = calls[p].args.role, !.status = "active"]
               r == UserRepository_Create(users, user, clock)
           IN IF r.err # ""
              THEN /\ calls' = [calls EXCEPT ![p] = Respond(@, StatusInternalServerError, "Error creating user")]
                   /\ users' = users
              ELSE /\ users' = r.tbl
                   /\ calls' = [calls EXCEPT ![p] =
                                   [Respond(@, StatusCreated, "User created successfully") EXCEPT
                                       !.user = r.tbl[user.id]]]
        /\ UNCHANGED <<authvars, clock, books, gone, served>>

getUserByID ==
    \E p \in Procs, id \in DOMAIN users \cup {UnknownID} :
        /\ Free(p)
        /\ InProgress = {}
        /\ LET call == [NoHandlerCall EXCEPT !.op = "getUserByID", !.args.id = id]
               r == UserRepository_GetByID(users, id)
           IN calls' = [calls EXCEPT ![p] =
                           IF r.err # "" THEN Respond(call, StatusNotFound, "User not found")
                           ELSE [Respond(call, StatusOK, "User retrieved successfully") EXCEPT
                                    !.user = r.user, !.resp.list = <<r.user>>]]
        /\ UNCHANGED <<authvars, clock, users, books, gone, served>>

updateUser ==
    \E p \in Procs, id \in DOMAIN users \cup {UnknownID}, has \in SUBSET {"role", "status"},
       role \in RoleInputs, status \in StatusInputs :
        /\ Free(p)
        /\ "role" \notin has => role = "admin"
        /\ "status" \notin has => status = "inactive"
        /\ LET call == [NoHandlerCall EXCEPT !.op = "updateUser", !.args.id = id, !.args.has = has,
                                             !.args.role = role, !.args.status = status]
               r == UserRepository_GetByID(users, id)
           IN calls' = [calls EXCEPT ![p] =
                           IF r.err # "" THEN Respond(call, StatusNotFound, "User not found")
                           ELSE [call EXCEPT !.pc = "save", !.user = r.user]]
        /\ UNCHANGED <<authvars, clock, users, books, gone, served>>

updateUserSave ==
    \E p \in Procs :
        /\ calls[p].op = "updateUser" /\ calls[p].pc = "save"
        /\ \A q \in Procs : calls[q].pc # "done"
        /\ LET a == calls[p].args
               user == [calls[p].user EXCEPT
                           !.role = IF "role" \in a.has THEN a.role ELSE @,
                           !.status = IF "status" \in a.has THEN a.status ELSE @]
           IN /\ users' = UserRepository_Update(users, user)
              /\ calls' = [calls EXCEPT ![p] =
                              [Respond(@, StatusOK, "User updated successfully") EXCEPT
                                  !.user = user, !.resp.list = <<user>>]]
        /\ UNCHANGED <<authvars, clock, books, gone, served>>

deleteUser ==
    \E p \in Procs, id \in DOMAIN users \cup {UnknownID} :
        /\ Free(p)
        /\ LET call == [NoHandlerCall EXCEPT !.op = "deleteUser", !.args.id = id]
               r == UserRepository_GetByID(users, id)
           IN calls' = [calls EXCEPT ![p] =
                           IF r.err # "" THEN Respond(call, StatusNotFound, "User not found")
                           ELSE [call EXCEPT !.pc = "delete"]]
        /\ UNCHANGED <<authvars, clock, users, books, gone, served>>

deleteUserDelete ==
    \E p \in Procs :
        /\ calls[p].op = "deleteUser" /\ calls[p].pc = "delete"
        /\ \A q \in Procs : calls[q].pc # "done"
        /\ users' = UserRepository_Delete(users, calls[p].args.id)
        /\ calls' = [calls EXCEPT ![p] = Respond(@, StatusOK, "User deleted successfully")]
        /\ gone' = gone \cup {[table |-> "users", id |-> calls[p].args.id]}
        /\ UNCHANGED <<authvars, clock, books, served>>

LimitParams == {NotNum(""), Num(-1)} \cup { Num(n) : n \in 1 .. MaxLimit }
OffsetParams == {NotNum(""), Num(-1), Num(1)}

getUsers ==
    \E p \in Procs, lim \in LimitParams, off \in OffsetParams,
       role \in {"", "member"}, status \in {"", "active", "inactive"} :
        /\ Free(p)
        /\ InProgress = {}
        /\ LET limit == IF Atoi(lim) <= 0 THEN DefaultLimit ELSE Atoi(lim)
               offset == IF Atoi(off) < 0 THEN 0 ELSE Atoi(off)
               call == [NoHandlerCall EXCEPT !.op = "getUsers", !.args.limit = lim, !.args.offset = off,
                                             !.args.role = role, !.args.status = status]
               results == IF role # "" THEN UserRepository_GetByRole(users, role, limit, offset)
                          ELSE IF status # "" THEN UserRepository_GetByStatus(users, status, limit, offset)
                          ELSE UserRepository_GetAll(users, limit, offset)
           IN \E list \in results :
                 calls' = [calls EXCEPT ![p] =
                              [Respond(call, StatusOK, "Users retrieved successfully") EXCEPT
                                  !.resp.list = list, !.resp.total = UserRepository_Count(users),
                                  !.resp.limit = limit, !.resp.offset = offset]]
        /\ UNCHANGED <<authvars, clock, users, books, gone, served>>

\* The response is written and the connection takes its next request.
Return ==
    \E p \in Procs :
        /\ calls[p].pc = "done"
        /\ calls' = [calls EXCEPT ![p] = NoHandlerCall]
        /\ served' = served + 1
        /\ UNCHANGED <<authvars, clock, users, books, gone>>

StoreExpiryHours == 1
StoreRefreshExpiryHours == 2

\* The handlers' JWT instance and the store as init.sql leaves it.
InitAPI ==
    /\ jwt = NewJWT("k1", StoreExpiryHours, StoreRefreshExpiryHours)
    /\ clock = 0
    /\ issued = NoIssue
    /\ vres = NoCall
    /\ req = NoRequest
    /\ InitStore

NextUsers ==
    \/ Tick
    \/ register
    \/ registerCreate
    \/ createUser
    \/ createUserCreate
    \/ getUserByID
    \/ getUsers
    \/ updateUser
    \/ updateUserSave
    \/ deleteUser
    \/ deleteUserDelete
    \/ Return

SpecUsers == InitAPI /\ [][NextUsers]_vars

----------------------------------------------------------------------------
(* The book handlers (BookAPI) over the store, as the user handlers: one     *)
(* step per statement the database executes.                                 *)

Quantities == 0 .. MaxQuantity
CreateISBNs == {Nil, Ptr("i1")}
UpdateISBNs == {Ptr("i1"), Ptr("i2")}

createBook ==
    \E p \in Procs, title \in {"", "t1"}, isbn \in CreateISBNs, quantity \in Quantities, available \in Quantities :
        /\ Free(p)
        /\ Cardinality(DOMAIN books) < MaxBooks
        /\ LET call == [NoHandlerCall EXCEPT !.op = "createBook", !.args.title = title, !.args.isbn = isbn,
                                             !.args.status = "available", !.args.quantity = quantity,
                                             !.args.available_quantity = available]
           IN calls' = [calls EXCEPT ![p] =
                           IF title = ""
                           THEN Respond(call, StatusBadRequest, "Title, author, language, and status are required")
                           ELSE IF ~isbn.nil /\ isbn.v # "" /\ BookRepository_ISBNExists(books, isbn.v)
                           THEN Respond(call, StatusConflict, "Book with this ISBN already exists")
                           ELSE [call EXCEPT !.pc = "create"]]
        /\ UNCHANGED <<authvars, clock, users, books, gone, served>>

createBookCreate ==
    \E p \in Procs :
        /\ calls[p].op = "createBook" /\ calls[p].pc = "create"
        /\ \A q \in Procs : calls[q].pc # "done"
        /\ LET a == calls[p].args
               book == [NoBook EXCEPT !.id = NewUUID(books), !.title = a.title, !.isbn = a.isbn,
                                      !.quantity = a.quantity, !.available_quantity = a.available_quantity,
                                      !.status = a.status]
               r == BookRepository_Create(books, book, clock)
           IN IF r.err # ""
              THEN /\ calls' = [calls EXCEPT ![p] = Respond(@, StatusInternalServerError, "Failed to create book")]
                   /\ books' = books
              ELSE /\ books' = r.tbl
                   /\ calls' = [calls EXCEPT ![p] =
                                   [Respond(@, StatusCreated, "Book created successfully") EXCEPT
                                       !.book = r.tbl[book.id]]]
        /\ UNCHANGED <<authvars, clock, users, gone, served>>

getBook ==
    \E p \in Procs, id \in DOMAIN books \cup {UnknownID} :
        /\ Free(p)
        /\ InProgress = {}
        /\ LET call == [NoHandlerCall EXCEPT !.op = "getBook", !.args.id = id]
               r == BookRepository_GetByID(books, id)
           IN calls' = [calls EXCEPT ![p] =
                           IF r.err # "" THEN Respond(call, StatusNotFound, "Book not found")
                           ELSE [Respond(call, StatusOK, "Book retrieved successfully") EXCEPT !.book = r.book]]
        /\ UNCHANGED <<authvars, clock, users, books, gone, served>>

\* The bodies of PUT /books/:id: each field is absent or carries a value.
UpdateBookRequests ==
    { [NoArgs EXCEPT !.has = {}] }
    \cup { [NoArgs EXCEPT !.has = {"title"}, !.title = "t2"] }
    \cup { [NoArgs EXCEPT !.has = {"isbn"}, !.isbn = i] : i \in UpdateISBNs }
    \cup { [NoArgs EXCEPT !.has = {"quantity"}, !.quantity = q] : q \in Quantities }
    \cup { [NoArgs EXCEPT !.has = {"available_quantity"}, !.available_quantity = q] : q \in Quantities }

updateBook ==
    \E p \in Procs, id \in DOMAIN books \cup {UnknownID}, body \in UpdateBookRequests :
        /\ Free(p)
        /\ LET call == [NoHandlerCall EXCEPT !.op = "updateBook", !.args = [body EXCEPT !.id = id]]
               r == BookRepository_GetByID(books, id)
           IN calls' = [calls EXCEPT ![p] =
                           IF r.err # "" THEN Respond(call, StatusNotFound, "Book not found")
                           ELSE IF "isbn" \in body.has /\ body.isbn.v # "" /\ r.book.isbn.nil
                           THEN \* *book.ISBN of a nil pointer: the panic is recovered by
                                \* middleware.Recover and answered by echo's error handler
                                Respond(call, StatusInternalServerError, "Internal Server Error")
                           ELSE IF "isbn" \in body.has /\ body.isbn.v # "" /\ body.isbn # r.book.isbn
                           THEN [call EXCEPT !.pc = "isbn", !.book = r.book]
                           ELSE [call EXCEPT !.pc = "save", !.book = r.book]]
        /\ UNCHANGED <<authvars, clock, users, books, gone, served>>

updateBookISBNExists ==
    \E p \in Procs :
        /\ calls[p].op = "updateBook" /\ calls[p].pc = "isbn"
        /\ \A q \in Procs : calls[q].pc # "done"
        /\ calls' = [calls EXCEPT ![p] =
                        IF BookRepository_ISBNExists(books, calls[p].args.isbn.v)
                        THEN Respond(@, StatusConflict, "Book with this ISBN already exists")
                        ELSE [@ EXCEPT !.pc = "save"]]
        /\ UNCHANGED <<authvars, clock, users, books, gone, served>>

updateBookSave ==
    \E p \in Procs :
        /\ calls[p].op = "updateBook" /\ calls[p].pc = "save"
        /\ \A q \in Procs : calls[q].pc # "done"
        /\ LET a == calls[p].args
               book == [calls[p].book EXCEPT
                           !.title = IF "title" \in a.has THEN a.title ELSE @,
                           !.isbn = IF "isbn" \in a.has THEN a.isbn ELSE @,
                           !.quantity = IF "quantity" \in a.has THEN a.quantity ELSE @,
                           !.available_quantity = IF "available_quantity" \in a.has
                                                  THEN a.available_quantity ELSE @]
               r == BookRepository_Update(books, book)
           IN IF r.err # ""
              THEN /\ calls' = [calls EXCEPT ![p] = Respond(@, StatusInternalServerError, "Failed to update book")]
                   /\ books' = books
              ELSE /\ books' = r.tbl
                   /\ calls' = [calls EXCEPT ![p] =
                                   [Respond(@, StatusOK, "Book updated successfully") EXCEPT !.book = book]]
        /\ UNCHANGED <<authvars, clock, users, gone, served>>

deleteBook ==
    \E p \in Procs, id \in DOMAIN books \cup {UnknownID} :
        /\ Free(p)
        /\ LET call == [NoHandlerCall EXCEPT !.op = "deleteBook", !.args.id = id]
               r == BookRepository_GetByID(books, id)
           IN calls' = [calls EXCEPT ![p] =
                           IF r.err # "" THEN Respond(call, StatusNotFound, "Book not found")
                           ELSE [call EXCEPT !.pc = "delete"]]
        /\ UNCHANGED <<authvars, clock, users, books, gone, served>>

deleteBookDelete ==
    \E p \in Procs :
        /\ calls[p].op = "deleteBook" /\ calls[p].pc = "delete"
        /\ \A q \in Procs : calls[q].pc # "done"
        /\ books' = BookRepository_Delete(books, calls[p].args.id)
        /\ calls' = [calls EXCEPT ![p] = Respond(@, StatusOK, "Book deleted successfully")]
        /\ gone' = gone \cup {[table |-> "books", id |-> calls[p].args.id]}
        /\ UNCHANGED <<authvars, clock, users, served>>

updateQuantity ==
    \E p \in Procs, id \in DOMAIN books \cup {UnknownID},
       quantity \in -1 .. MaxQuantity, available \in -1 .. MaxQuantity :
        /\ Free(p)
        /\ LET call == [NoHandlerCall EXCEPT !.op = "updateQuantity", !.args.id = id,
                                             !.args.quantity = quantity, !.args.available_quantity = available]
           IN calls' = [calls EXCEPT ![p] =
                           IF quantity < 0 \/ available < 0
                           THEN Respond(call, StatusBadRequest, "Quantities cannot be negative")
                           ELSE IF available > quantity
                           THEN Respond(call, StatusBadRequest, "Available quantity cannot exceed total quantity")
                           ELSE IF BookRepository_GetByID(books, id).err # ""
                           THEN Respond(call, StatusNotFound, "Book not found")
                           ELSE [call EXCEPT !.pc = "update"]]
        /\ UNCHANGED <<authvars, clock, users, books, gone, served>>

updateQuantityUpdate ==
    \E p \in Procs :
        /\ calls[p].op = "updateQuantity" /\ calls[p].pc = "update"
        /\ \A q \in Procs : calls[q].pc # "done"
        /\ books' = BookRepository_UpdateQuantity(books, calls[p].args.id, calls[p].args.quantity,
                                                  calls[p].args.available_quantity)
        /\ calls' = [calls EXCEPT ![p].pc = "reload"]
        /\ UNCHANGED <<authvars, clock, users, gone, served>>

updateQuantityGetByID ==
    \E p \in Procs :
        /\ calls[p].op = "updateQuantity" /\ calls[p].pc = "reload"
        /\ \A q \in Procs : calls[q].pc # "done"
        /\ LET r == BookRepository_GetByID(books, calls[p].args.id) IN
           calls' = [calls EXCEPT ![p] =
                        IF r.err # ""
                        THEN Respond(@, StatusInternalServerError, "Failed to retrieve updated book")
                        ELSE [Respond(@, StatusOK, "Book quantity updated successfully") EXCEPT !.book = r.book]]
        /\ UNCHANGED <<authvars, clock, users, books, gone, served>>

NextBooks ==
    \/ createBook
    \/ createBookCreate
    \/ getBook
    \/ updateBook
    \/ updateBookISBNExists
    \/ updateBookSave
    \/ deleteBook
    \/ deleteBookDelete
    \/ updateQuantity
    \/ updateQuantityUpdate
    \/ updateQuantityGetByID
    \/ Return

SpecBooks == InitAPI /\ [][NextBooks]_vars

----------------------------------------------------------------------------
(* Sessions: AuthAPI.login and AuthAPI.refresh over the store, a client that *)
(* keeps the pair of its last successful response, and requests of that      *)
(* client through RequireAuth and RequireAdmin.  Between the statement that   *)
(* reads the user and the call of GenerateTokenPair other connections run.   *)

\* Request bodies: one that c.Bind rejects (the request stays zero), and the
\* well-formed ones.
LoginBodies ==
    {[bound |-> FALSE, email |-> "", password |-> ""]} \cup
    { [bound |-> TRUE, email |-> e, password |-> pw] : e \in Emails, pw \in {Password, "bad"} }
RefreshBodies(iss) ==
    {[bound |-> FALSE, refresh_token |-> EmptyString]} \cup
    { [bound |-> TRUE, refresh_token |-> t] : t \in BaseTokens(iss) \cup {Garbage} }

\* The handler's response with a token pair for the user it holds.
TokenResponse(j, call, message, now) ==
    [Respond(call, StatusOK, message) EXCEPT
        !.resp.access = GenerateAccessTokenAt(j, AsPrincipal(call.user), now, now, now),
        !.resp.refresh = GenerateRefreshTokenAt(j, AsPrincipal(call.user), now, now, now),
        !.resp.expires_at = now + ResponseExpiryHours * HourTicks]

login ==
    \E p \in Procs, body \in LoginBodies :
        /\ Free(p)
        /\ LET call == [NoHandlerCall EXCEPT !.op = "login", !.args.email = body.email,
                                             !.args.password = body.password,
                                             !.args.has = IF body.bound THEN {"body"} ELSE {}]
               r == UserRepository_GetByEmail(users, body.email)
           IN calls' = [calls EXCEPT ![p] =
                           IF ~body.bound THEN Respond(call, StatusBadRequest, "Invalid request format")
                           ELSE IF r.err # "" THEN Respond(call, StatusUnauthorized, "Invalid email or password")
                           ELSE IF r.user.status # "active"
                                THEN Respond([call EXCEPT !.user = r.user], StatusUnauthorized, "Account is not active")
                           ELSE IF CompareHashAndPassword(r.user.password_hash, body.password) # ""
                                THEN Respond([call EXCEPT !.user = r.user], StatusUnauthorized,
                                             "Invalid email or password")
                           ELSE [call EXCEPT !.pc = "issue", !.user = r.user]]
        /\ UNCHANGED <<authvars, clock, users, books, gone, served>>

loginIssue ==
    \E p \in Procs :
        /\ calls[p].op = "login" /\ calls[p].pc = "issue"
        /\ \A q \in Procs : calls[q].pc # "done"
        /\ calls' = [calls EXCEPT ![p] = TokenResponse(jwt, @, "Login successful", clock)]
        /\ UNCHANGED <<authvars, clock, users, books, gone, served>>

refresh ==
    \E p \in Procs, body \in RefreshBodies(issued) :
        /\ Free(p)
        /\ LET call == [NoHandlerCall EXCEPT !.op = "refresh", !.args.refresh_token = body.refresh_token,
                                             !.args.has = IF body.bound THEN {"body"} ELSE {}]
               v == ValidateRefreshToken(jwt, body.refresh_token, clock)
               r == UserRepository_GetByID(users, v.subject)
           IN calls' = [calls EXCEPT ![p] =
                           IF ~body.bound THEN Respond(call, StatusBadRequest, "Invalid request format")
                           ELSE IF v.err # "" THEN Respond(call, StatusUnauthorized, "Invalid refresh token")
                           ELSE IF r.err # "" THEN Respond(call, StatusUnauthorized, "User not found")
                           ELSE IF r.user.status # "active"
                                THEN Respond([call EXCEPT !.user = r.user], StatusUnauthorized, "Account is not active")
                           ELSE [call EXCEPT !.pc = "issue", !.user = r.user]]
        /\ UNCHANGED <<authvars, clock, users, books, gone, served>>

refreshIssue ==
    \E p \in Procs :
        /\ calls[p].op = "refresh" /\ calls[p].pc = "issue"
        /\ \A q \in Procs : calls[q].pc # "done"
        /\ calls' = [calls EXCEPT ![p] = TokenResponse(jwt, @, "Tokens refreshed successfully", clock)]
        /\ UNCHANGED <<authvars, clock, users, books, gone, served>>

\* The client reads the response and keeps the token pair, if it holds one.
Receive ==
    \E p \in Procs :
        /\ calls[p].pc = "done"
        /\ calls' = [calls EXCEPT ![p] = NoHandlerCall]
        /\ served' = served + 1
        /\ issued' = IF calls[p].resp.access = EmptyString THEN issued
                     ELSE [fn |-> "pair", user |-> AsPrincipal(calls[p].user),
                           access |-> calls[p].resp.access, refresh |-> calls[p].resp.refresh]
        /\ UNCHANGED <<jwt, clock, vres, req, users, books, gone>>

\* The client presents its access token to a route behind RequireAuth, or
\* behind RequireAuth and RequireAdmin.
SessionChains == { <<RequireAuthMw>>, <<RequireAuthMw, RequireAdmin>> }

Request ==
    /\ Idle
    /\ InProgress = {}
    /\ issued # NoIssue
    /\ \E chain \in SessionChains :
          req' = [kind |-> "session", route |-> "", chain |-> chain, now |-> clock, preset |-> EmptyStore,
                  c |-> Run(jwt, chain, 1, NewContext(<<Word("Bearer"), SP>> \o issued.access, EmptyStore), clock)]
    /\ UNCHANGED <<jwt, clock, issued, vres, dbvars>>

NextSession ==
    \/ TickHour
    \/ register
    \/ registerCreate
    \/ login
    \/ loginIssue
    \/ refresh
    \/ refreshIssue
    \/ updateUser
    \/ updateUserSave
    \/ deleteUser
    \/ deleteUserDelete
    \/ Receive
    \/ Request
    \/ Done

SpecSession == InitAPI /\ [][NextSession]_vars

----------------------------------------------------------------------------
(* Requests in flight through the middleware: echo gives every request its   *)
(* own context, the functions of the chain run one after the other on it,    *)
(* and requests on different connections interleave between them.  All of    *)
(* them call the one JWT instance.                                           *)

\* Authorization headers of clients: none, garbage, and the access tokens
\* issued at the start to the two principals.
ClientHeaders ==
    {EmptyString, <<Word("Bearer"), SP>> \o Garbage} \cup
    { <<Word("Bearer"), SP>> \o GenerateAccessTokenAt(jwt, user, 0, 0, 0) : user \in Principals }

\* The function of the chain that connection p runs next.
Running(p, mw) ==
    /\ calls[p].op = "ServeHTTP"
    /\ calls[p].pc = "run"
    /\ \A q \in Procs : calls[q].pc # "done"
    /\ IF calls[p].i > Len(calls[p].chain) THEN mw = "Handler" ELSE calls[p].chain[calls[p].i].mw = mw

\* The call after a function of the chain returned r: on to the next
\* function, or back to echo with the response written.
Continue(call, r) ==
    IF r.next THEN [call EXCEPT !.c = [r EXCEPT !.next = FALSE], !.i = @ + 1]
    ELSE [call EXCEPT !.c = r, !.pc = "done"]

ServeHTTP ==
    \E p \in Procs, chain \in SessionChains, header \in ClientHeaders :
        /\ Free(p)
        /\ calls' = [calls EXCEPT ![p] =
                        [NoHandlerCall EXCEPT !.op = "ServeHTTP", !.pc = "run", !.chain = chain, !.i = 1,
                                              !.c = NewContext(header, EmptyStore)]]
        /\ UNCHANGED <<authvars, clock, users, books, gone, served>>

callRequireAuth ==
    \E p \in Procs :
        /\ Running(p, "RequireAuth")
        /\ calls' = [calls EXCEPT ![p] = Continue([@ EXCEPT !.now = clock], RequireAuth(jwt, @.c, clock))]
        /\ UNCHANGED <<authvars, clock, users, books, gone, served>>

callRequireRole ==
    \E p \in Procs :
        /\ Running(p, "RequireRole")
        /\ calls' = [calls EXCEPT ![p] = Continue(@, RequireRole(@.chain[@.i].role, @.c))]
        /\ UNCHANGED <<authvars, clock, users, books, gone, served>>

callHandler ==
    \E p \in Procs :
        /\ Running(p, "Handler")
        /\ calls' = [calls EXCEPT ![p] = Continue(@, Handler(@.c))]
        /\ UNCHANGED <<authvars, clock, users, books, gone, served>>

NextConcurrent ==
    \/ Tick
    \/ TickHour
    \/ ServeHTTP
    \/ callRequireAuth
    \/ callRequireRole
    \/ callHandler
    \/ Return

SpecConcurrent == InitAPI /\ [][NextConcurrent]_vars

----------------------------------------------------------------------------
(* Properties *)

\* The claims a token carries, and the times strictly inside its validity
\* window [not_before, expires_at].
PayloadOf(tok) == tok[1].t.payload
InsideWindow(tok, t) ==
    /\ PayloadOf(tok).nbf * TicksPerSecond < t
    /\ t < PayloadOf(tok).exp * TicksPerSecond

\* The header starts with "Bearer " and the token is what follows.
HasBearerPrefix(h) == Len(h) >= 2 /\ h[1] = Word("Bearer") /\ h[2] = SP
BearerToken(h) == IF HasBearerPrefix(h) THEN SubSeq(h, 3, Len(h)) ELSE EmptyString

\* C1: at every time inside its validity window, the access token issued for a
\* principal validates, and the claims returned carry the principal's id as
\* UserID and Subject, its email and its role.
C1_AccessRoundTrip ==
    /\ (issued.access # EmptyString /\ InsideWindow(issued.access, clock)) =>
          LET v == ValidateToken(jwt, issued.access, clock) IN
          /\ v.err = ""
          /\ v.claims.UserID = issued.user.id
          /\ v.claims.Subject = issued.user.id
          /\ v.claims.Email = issued.user.email
          /\ v.claims.Role = issued.user.role
    /\ (vres.fn = "ValidateToken" /\ vres.token = issued.access /\ InsideWindow(vres.token, vres.now)) =>
          /\ vres.err = ""
          /\ vres.claims.UserID = issued.user.id
          /\ vres.claims.Subject = issued.user.id
          /\ vres.claims.Email = issued.user.email
          /\ vres.claims.Role = issued.user.role

C1_Witness ==
    /\ vres.fn = "ValidateToken"
    /\ issued.fn = "access"
    /\ vres.token = issued.access
    /\ InsideWindow(vres.token, vres.now)
    /\ vres.err = ""
    /\ vres.claims.Role = "admin"
    /\ vres.claims.Email = "a@x"

\* C2: at every time inside its validity window, the refresh token issued for
\* a principal validates to exactly the principal's id, and the claims of
\* every refresh token issued, alone or in a pair, are the subject and the
\* three time bounds and nothing else.
C2_RefreshRoundTrip ==
    issued.refresh # EmptyString =>
        /\ PayloadOf(issued.refresh).keys = {"sub", "exp", "iat", "nbf"}
        /\ PayloadOf(issued.refresh).sub = issued.user.id
        /\ InsideWindow(issued.refresh, clock) =>
              ValidateRefreshToken(jwt, issued.refresh, clock) = [err |-> "", subject |-> issued.user.id]
        /\ (vres.fn = "ValidateRefreshToken" /\ vres.token = issued.refresh
               /\ InsideWindow(vres.token, vres.now)) =>
              vres.err = "" /\ vres.subject = issued.user.id

C2_Witness ==
    /\ vres.fn = "ValidateRefreshToken"
    /\ issued.fn = "pair"
    /\ vres.token = issued.refresh
    /\ InsideWindow(vres.token, vres.now)
    /\ vres.err = ""
    /\ vres.subject = "u1"

\* C3: behind RequireAuth followed by RequireRole(r) the handler runs only
\* for a bearer token that validated with role r; every other request ends
\* with 401 or 403 and the handler does not run.
C3_Authorized(r) ==
    /\ BearerToken(req.c.header) # EmptyString
    /\ ValidateToken(jwt, BearerToken(req.c.header), req.now).err = ""
    /\ ValidateToken(jwt, BearerToken(req.c.header), req.now).claims.Role = r

C3_HandlerGuarded ==
    \A r \in Roles :
        req.chain = <<RequireAuthMw, RequireRoleMw(r)>> =>
            /\ req.c.handled > 0 => C3_Authorized(r)
            /\ ~C3_Authorized(r) =>
                  req.c.handled = 0 /\ req.c.status \in {StatusUnauthorized, StatusForbidden}

C3_Witness ==
    /\ req.chain = <<RequireAuthMw, RequireRoleMw("admin")>>
    /\ req.c.handled = 1
    /\ req.c.status = StatusOK
    /\ req.c.seen.claims.Role = "admin"

\* C4: every user-management route and every book mutation route, with the
\* chain its Setup registers, runs its handler for a request with a valid
\* access token of role admin and answers every other request 401 or 403
\* without running the handler.
AdminOnlyRoutes ==
    {"POST /users", "GET /users", "GET /users/:id", "PUT /users/:id", "DELETE /users/:id",
     "POST /books", "PUT /books/:id", "DELETE /books/:id", "PUT /books/:id/quantity"}

C4_AdminRoutes ==
    (req.kind = "route" /\ req.route \in AdminOnlyRoutes) =>
        IF C3_Authorized("admin")
        THEN req.c.handled = 1
        ELSE req.c.handled = 0 /\ req.c.status \in {StatusUnauthorized, StatusForbidden}

\* The half of C4 that the registered chains do satisfy: no request to these
\* routes reaches the handler, each is answered 401 or 403.
C4_NeverHandled ==
    (req.kind = "route" /\ req.route \in AdminOnlyRoutes) =>
        req.c.handled = 0 /\ req.c.status \in {StatusUnauthorized, StatusForbidden}

\* C5: a token whose signature segment differs from the encoded MAC of its
\* header and claims under the instance's secret is rejected by ValidateToken,
\* by ValidateRefreshToken, and by RequireAuth with 401.
SegmentDiffers(tok) ==
    /\ Len(tok) = 1
    /\ tok[1].k = "jwt"
    /\ tok[1].t.sig # EncodeSegment(HMAC(tok[1].t.alg, jwt.secret, tok[1].t.payload))

C5_TamperedRejected ==
    /\ (vres # NoCall /\ SegmentDiffers(vres.token)) => vres.err # ""
    /\ (AuthFirst(req.chain) /\ SegmentDiffers(BearerToken(req.c.header))) =>
          req.c.status = StatusUnauthorized /\ req.c.handled = 0

\* What holds instead: a token whose decoded signature differs from that MAC
\* is rejected by all three.
DecodedDiffers(tok) ==
    /\ Len(tok) = 1
    /\ tok[1].k = "jwt"
    /\ DecodeSegment(tok[1].t.sig) # HMAC(tok[1].t.alg, jwt.secret, tok[1].t.payload)

C5_DecodedMismatchRejected ==
    /\ \A tok \in Presentable(issued) :
          DecodedDiffers(tok) =>
              /\ ValidateToken(jwt, tok, clock).err # ""
              /\ ValidateRefreshToken(jwt, tok, clock).err # ""
    /\ (vres # NoCall /\ DecodedDiffers(vres.token)) => vres.err # ""
    /\ (AuthFirst(req.chain) /\ DecodedDiffers(BearerToken(req.c.header))) =>
          req.c.status = StatusUnauthorized /\ req.c.handled = 0

\* C6: a token presented after its expires_at is rejected by both validators,
\* whatever the configured expiry.
PastExpiry(tok, t) ==
    /\ Len(tok) = 1
    /\ tok[1].k = "jwt"
    /\ "exp" \in PayloadOf(tok).keys
    /\ t > PayloadOf(tok).exp * TicksPerSecond

C6_ExpiredRejected ==
    /\ \A tok \in Presentable(issued) :
          PastExpiry(tok, clock) =>
              /\ ValidateToken(jwt, tok, clock).err # ""
              /\ ValidateRefreshToken(jwt, tok, clock).err # ""
    /\ (vres # NoCall /\ PastExpiry(vres.token, vres.now)) => vres.err # ""

C6_Witness ==
    /\ vres.fn = "ValidateRefreshToken"
    /\ vres.token = issued.refresh
    /\ jwt.refreshExpiryHours = 2
    /\ PastExpiry(vres.token, vres.now)
    /\ vres.err = "expired"

C5_Witness ==
    /\ AuthFirst(req.chain)
    /\ DecodedDiffers(BearerToken(req.c.header))
    /\ BearerToken(req.c.header)[1].t.sig.mac.key = OtherSecret
    /\ req.c.verr = "signature"
    /\ req.c.status = StatusUnauthorized

\* C7: RequireAuth answers 401 "Authorization header is required", and calls
\* neither the validator nor the next handler, when the header is absent or
\* empty, does not start with "Bearer ", or has nothing after that prefix.
C7_MissingToken ==
    (AuthFirst(req.chain) /\ (~HasBearerPrefix(req.c.header) \/ Len(req.c.header) = 2)) =>
        /\ req.c.status = StatusUnauthorized
        /\ req.c.message = "Authorization header is required"
        /\ req.c.validated = 0
        /\ req.c.handled = 0

C7_Witness ==
    /\ AuthFirst(req.chain)
    /\ req.c.header = <<Word("bearer"), SP>> \o issued.access
    /\ issued.access # EmptyString
    /\ ValidateToken(jwt, issued.access, req.now).err = ""
    /\ req.c.status = StatusUnauthorized
    /\ req.c.validated = 0

\* C8: for a non-empty bearer token that fails validation RequireAuth answers
\* 401 "Invalid or expired token" whatever the cause, which is not the message
\* of a missing header, and does not call the next handler.
C8_InvalidToken ==
    (/\ AuthFirst(req.chain)
     /\ BearerToken(req.c.header) # EmptyString
     /\ ValidateToken(jwt, BearerToken(req.c.header), req.now).err # "") =>
        /\ req.c.status = StatusUnauthorized
        /\ req.c.message = "Invalid or expired token"
        /\ req.c.message # "Authorization header is required"
        /\ req.c.handled = 0
        /\ req.c.validated = 1

C8_Witness ==
    /\ AuthFirst(req.chain)
    /\ req.c.verr = "notyet"
    /\ req.c.message = "Invalid or expired token"

\* C9: when the bearer token validates, RequireAuth stores the validated
\* claims under the key "user" and nothing else, and calls the next handler
\* once; GetUserFromContext in that handler returns those claims.  On any
\* context it returns nil when the key is unset or holds another type.
C9_ClaimsAttached ==
    /\ (/\ req.chain = <<RequireAuthMw>>
        /\ BearerToken(req.c.header) # EmptyString
        /\ ValidateToken(jwt, BearerToken(req.c.header), req.now).err = "") =>
          LET claims == ValidateToken(jwt, BearerToken(req.c.header), req.now).claims IN
          /\ req.c.handled = 1
          /\ DOMAIN req.c.store = DOMAIN req.preset \cup {"user"}
          /\ req.c.store["user"] = ClaimsValue(claims)
          /\ \A k \in DOMAIN req.preset \ {"user"} : req.c.store[k] = req.preset[k]
          /\ req.c.seen = ClaimsValue(claims)
    /\ (req.chain = <<>> /\ req.c.handled = 1) =>
          req.c.seen = IF "user" \in DOMAIN req.preset /\ req.preset["user"].type = "Claims"
                       THEN req.preset["user"] ELSE NilValue

C9_Witness ==
    /\ req.chain = <<RequireAuthMw>>
    /\ req.preset = [k \in {"user"} |-> StringValue("u9")]
    /\ req.c.handled = 1
    /\ req.c.seen.type = "Claims"
    /\ req.c.seen.claims.UserID = "u1"
    /\ req.c.seen.claims.Email = "m@x"

\* C10: on a context that holds claims, RequireRole(r) calls the next handler
\* exactly when the claims' role is the same string as r, and otherwise
\* answers 403 "Insufficient permissions" without calling it.
HoldsClaims(store) == "user" \in DOMAIN store /\ store["user"].type = "Claims"

C10_RoleExact ==
    \A r \in Roles :
        (req.chain = <<RequireRoleMw(r)>> /\ HoldsClaims(req.preset)) =>
            /\ req.c.handled = 1 <=> req.preset["user"].claims.Role = r
            /\ req.c.handled \in {0, 1}
            /\ req.preset["user"].claims.Role # r =>
                  /\ req.c.status = StatusForbidden
                  /\ req.c.message = "Insufficient permissions"

C10_Witness ==
    /\ req.chain = <<RequireRoleMw("admin")>>
    /\ HoldsClaims(req.preset)
    /\ req.preset["user"].claims.Role = "Admin"
    /\ req.c.status = StatusForbidden
    /\ req.c.handled = 0

\* C11: RequireRole(r), and RequireAdmin, called on a context that holds no
\* claims answers 401 "Authentication required" and does not call the next
\* handler, for every required role r.
C11_Unauthenticated ==
    /\ \A r \in Roles :
          (req.chain = <<RequireRoleMw(r)>> /\ ~HoldsClaims(req.preset)) =>
              /\ req.c.status = StatusUnauthorized
              /\ req.c.message = "Authentication required"
              /\ req.c.handled = 0
    /\ (req.kind = "route" /\ req.chain = <<RequireAdmin>>) =>
          /\ req.c.status = StatusUnauthorized
          /\ req.c.message = "Authentication required"
          /\ req.c.handled = 0

C11_Witness ==
    /\ req.chain = <<RequireRoleMw("member")>>
    /\ req.preset = [k \in {"user"} |-> StringValue("u9")]
    /\ req.c.status = StatusUnauthorized
    /\ req.c.message = "Authentication required"
    /\ req.c.handled = 0

\* C12: a request that carries the access token of a pair issued for a
\* principal, while that token is valid, and passes through RequireAuth
\* followed by RequireAdmin reaches the handler exactly when the principal's
\* role is "admin" and ends with 403 otherwise; RequireAdmin is the same
\* middleware as RequireRole("admin").
C12_EndToEnd ==
    /\ RequireAdmin = RequireRoleMw("admin")
    /\ (/\ req.chain = <<RequireAuthMw, RequireAdmin>>
        /\ issued.fn = "pair"
        /\ req.c.header = <<Word("Bearer"), SP>> \o issued.access
        /\ ValidateToken(jwt, issued.access, req.now).err = "") =>
          /\ req.c.handled = 1 <=> issued.user.role = "admin"
          /\ req.c.handled \in {0, 1}
          /\ issued.user.role = "admin" => req.c.seen.claims.UserID = issued.user.id
          /\ issued.user.role # "admin" =>
                req.c.status = StatusForbidden /\ req.c.message = "Insufficient permissions"

C12_Witness ==
    /\ req.chain = <<RequireAuthMw, RequireAdmin>>
    /\ issued.fn = "pair"
    /\ issued.user = [id |-> "u1", email |-> "m@x", role |-> "member"]
    /\ req.c.header = <<Word("Bearer"), SP>> \o issued.access
    /\ req.c.validated = 1
    /\ req.c.verr = ""
    /\ req.c.status = StatusForbidden
    /\ req.c.handled = 0

\* C13: a refresh token presented as the bearer token is rejected by
\* ValidateToken, and by RequireAuth with 401 without the handler running.
C13_RefreshRejected ==
    /\ (vres.fn = "ValidateToken" /\ issued.refresh # EmptyString /\ vres.token = issued.refresh) =>
          vres.err # ""
    /\ (/\ AuthFirst(req.chain)
        /\ issued.refresh # EmptyString
        /\ req.c.header = <<Word("Bearer"), SP>> \o issued.refresh) =>
          req.c.status = StatusUnauthorized /\ req.c.handled = 0

\* C14: in every pair issued, by an instance of any configuration, the access
\* token expires strictly before the refresh token.
C14_AccessExpiresFirst ==
    issued.fn = "pair" => PayloadOf(issued.access).exp < PayloadOf(issued.refresh).exp

\* C20: a correctly signed token is accepted at every time of the closed
\* interval not_before <= t <= expires_at and rejected at every other time.
ClosedWindow(tok, t) ==
    /\ PayloadOf(tok).nbf * TicksPerSecond <= t
    /\ t <= PayloadOf(tok).exp * TicksPerSecond

C20_ClosedWindow ==
    /\ issued.access # EmptyString =>
          (ValidateToken(jwt, issued.access, clock).err = "" <=> ClosedWindow(issued.access, clock))
    /\ issued.refresh # EmptyString =>
          (ValidateRefreshToken(jwt, issued.refresh, clock).err = "" <=> ClosedWindow(issued.refresh, clock))

\* What holds instead: the token is accepted exactly at the times
\* not_before <= t < expires_at, the instant expires_at excluded, and a token
\* of a positive expiry is accepted at the instant the issuing call returns.
HalfOpenWindow(tok, t) ==
    /\ PayloadOf(tok).nbf * TicksPerSecond <= t
    /\ t < PayloadOf(tok).exp * TicksPerSecond

C20_AcceptedInWindow ==
    /\ issued.access # EmptyString =>
          (ValidateToken(jwt, issued.access, clock).err = "" <=> HalfOpenWindow(issued.access, clock))
    /\ issued.refresh # EmptyString =>
          (ValidateRefreshToken(jwt, issued.refresh, clock).err = "" <=> HalfOpenWindow(issued.refresh, clock))
    /\ (vres.fn = "ValidateToken" /\ issued.access # EmptyString /\ vres.token = issued.access) =>
          (vres.err = "" <=> HalfOpenWindow(vres.token, vres.now))
    /\ (vres.fn = "ValidateRefreshToken" /\ issued.refresh # EmptyString /\ vres.token = issued.refresh) =>
          (vres.err = "" <=> HalfOpenWindow(vres.token, vres.now))

C20_AcceptedAtIssue ==
    issued' # issued =>
        /\ (issued'.access # EmptyString /\ jwt.expiryHours >= 1) =>
              ValidateToken(jwt, issued'.access, clock').err = ""
        /\ (issued'.refresh # EmptyString /\ jwt.refreshExpiryHours >= 1) =>
              ValidateRefreshToken(jwt, issued'.refresh, clock').err = ""

C20_HalfOpenWindow == []C20_AcceptedInWindow /\ [][C20_AcceptedAtIssue]_vars

C20_Witness ==
    /\ vres.fn = "ValidateToken"
    /\ issued.access # EmptyString
    /\ vres.token = issued.access
    /\ jwt.expiryHours = 1
    /\ vres.now = PayloadOf(vres.token).exp * TicksPerSecond
    /\ vres.err = "expired"

\* C15: every stored book has available_quantity <= quantity, whatever
\* createBook, updateBook and updateQuantity requests have been served.
C15_AvailableWithinQuantity ==
    \A i \in DOMAIN books : books[i].available_quantity <= books[i].quantity

\* C16: of the register and createUser requests that carry one email at most
\* one creates a user and each of the others is answered 409: no email is held
\* by two users, and a request that finds its email held by a user it did not
\* create ends with 409.
C16_EmailConflict ==
    /\ \A e \in Emails : Cardinality({ u \in LiveUsers(users) : u.email = e }) <= 1
    /\ \A p \in Procs :
          (/\ calls[p].op \in {"register", "createUser"}
           /\ calls[p].pc = "done"
           /\ \E u \in LiveUsers(users) : u.email = calls[p].args.email /\ u.id # calls[p].user.id) =>
              calls[p].resp.status = StatusConflict

\* C17: every stored user has a role of admin or member and a status of active
\* or inactive, and a createUser or updateUser request that carries another
\* value is rejected.
ValidRoles == {"admin", "member"}
ValidStatuses == {"active", "inactive"}

C17_RoleStatusValid ==
    /\ \A i \in DOMAIN users : users[i].role \in ValidRoles /\ users[i].status \in ValidStatuses
    /\ \A p \in Procs :
          calls[p].pc = "done" =>
              /\ (calls[p].op = "createUser" /\ calls[p].args.role \notin ValidRoles) =>
                    calls[p].resp.status \notin {StatusOK, StatusCreated}
              /\ (/\ calls[p].op = "updateUser"
                  /\ \/ "role" \in calls[p].args.has /\ calls[p].args.role \notin ValidRoles
                     \/ "status" \in calls[p].args.has /\ calls[p].args.status \notin ValidStatuses) =>
                    calls[p].resp.status \notin {StatusOK, StatusCreated}

\* C18: once the delete of a record has been answered 200 the record stays
\* deleted: its row keeps deleted_date set, so that no list or count shows it,
\* and every read of its id is answered 404.
C18_DeletedForGood ==
    /\ \A g \in gone :
          /\ g.table = "books" => books[g.id].deleted
          /\ g.table = "users" => users[g.id].deleted
    /\ \A p \in Procs :
          /\ (calls[p].op = "getBook" /\ calls[p].pc = "done"
                 /\ [table |-> "books", id |-> calls[p].args.id] \in gone) =>
                calls[p].resp.status = StatusNotFound
          /\ (calls[p].op = "getUserByID" /\ calls[p].pc = "done"
                 /\ [table |-> "users", id |-> calls[p].args.id] \in gone) =>
                calls[p].resp.status = StatusNotFound

\* C19: the users GET /users returns match every filter of the query, role
\* and status; limit is 20 when absent or not positive, offset 0 when absent
\* or negative.
C19_EveryFilter ==
    \A p \in Procs :
        (calls[p].op = "getUsers" /\ calls[p].pc = "done") =>
            LET a == calls[p].args
                r == calls[p].resp
            IN /\ r.status = StatusOK
               /\ \A k \in 1 .. Len(r.list) :
                     /\ a.role # "" => r.list[k].role = a.role
                     /\ a.status # "" => r.list[k].status = a.status
               /\ r.limit = IF a.limit.s = "num" /\ a.limit.n > 0 THEN a.limit.n ELSE 20
               /\ r.offset = IF a.offset.s = "num" /\ a.offset.n >= 0 THEN a.offset.n ELSE 0

\* C26: register and createUser requests with different emails that no row
\* holds all succeed with 201, whenever they are handled: a creation request
\* that has been answered, and whose email no other row holds, was answered 201.
C26_DistinctIDs ==
    \A p \in Procs :
        (/\ calls[p].op \in {"register", "createUser"}
         /\ calls[p].pc = "done"
         /\ \A i \in DOMAIN users : users[i].email = calls[p].args.email => i = calls[p].user.id) =>
            calls[p].resp.status = StatusCreated

\* C27: updateBook on an existing book is answered 200, or 409 for the ISBN of
\* another book, and on 200 the row is the row read with exactly the supplied
\* fields set; so it is when an ISBN is supplied for a book stored without one.
C27_UpdateFrame ==
    \A p \in Procs :
        (/\ calls[p].op = "updateBook"
         /\ calls[p].pc = "done"
         /\ calls[p].args.id \in DOMAIN books
         /\ ~books[calls[p].args.id].deleted) =>
            LET a == calls[p].args
                b == books[a.id]
                old == calls[p].book
            IN /\ calls[p].resp.status \in {StatusOK, StatusConflict}
               /\ calls[p].resp.status = StatusOK =>
                     /\ b.title = IF "title" \in a.has THEN a.title ELSE old.title
                     /\ b.isbn = IF "isbn" \in a.has THEN a.isbn ELSE old.isbn
                     /\ b.quantity = IF "quantity" \in a.has THEN a.quantity ELSE old.quantity
                     /\ b.available_quantity =
                           IF "available_quantity" \in a.has THEN a.available_quantity ELSE old.available_quantity
                     /\ b.status = old.status /\ b.created = old.created /\ b.id = old.id

\* C28: an updateBook that supplies neither quantity nor available_quantity
\* never undoes an updateQuantity: the step in which it writes the book leaves
\* the two columns of every row as they are stored.
C28_QuantityKept ==
    [][ \A p \in Procs :
           (/\ calls[p].op = "updateBook"
            /\ calls[p].pc = "save"
            /\ calls'[p].pc = "done"
            /\ calls[p].args.has \cap {"quantity", "available_quantity"} = {}) =>
               \A i \in DOMAIN books :
                  /\ books'[i].quantity = books[i].quantity
                  /\ books'[i].available_quantity = books[i].available_quantity ]_vars

\* C30: the total GET /users returns is the number of users, not deleted, that
\* match the filter the request applies.
C30_TotalMatchesFilter ==
    \A p \in Procs :
        (calls[p].op = "getUsers" /\ calls[p].pc = "done") =>
            LET a == calls[p].args IN
            calls[p].resp.total =
                Cardinality({ u \in LiveUsers(users) :
                                /\ a.role # "" => u.role = a.role
                                /\ (a.role = "" /\ a.status # "") => u.status = a.status })

\* A finished login or refresh that answered with a token pair.
Issuing(p, op) ==
    /\ calls[p].op = op
    /\ calls[p].pc = "done"
    /\ calls[p].resp.status = StatusOK

\* The step in which connection p has read the user and goes on to issue.
ReadsUser(p, op) ==
    /\ calls[p] = NoHandlerCall
    /\ calls'[p].op = op
    /\ calls'[p].pc = "issue"

\* C21: every successful refresh re-resolves the principal from the store; the
\* user it goes on with is the row stored under the token's subject when the
\* handler reads it, and the access token it issues carries the id, email and
\* role of that row, whatever the pair presented was issued for.
C21_RowAtRefresh ==
    \A p \in Procs :
        ReadsUser(p, "refresh") =>
            LET sub == PayloadOf(calls'[p].args.refresh_token).sub IN
            /\ sub \in DOMAIN users
            /\ calls'[p].user = users[sub]

C21_TokenOfRow ==
    \A p \in Procs :
        Issuing(p, "refresh") =>
            LET payload == PayloadOf(calls[p].resp.access) IN
            /\ payload.user_id = calls[p].user.id
            /\ payload.sub = PayloadOf(calls[p].args.refresh_token).sub
            /\ payload.user_id = payload.sub
            /\ payload.email = calls[p].user.email
            /\ payload.role = calls[p].user.role
            /\ {"user_id", "email", "role"} \subseteq payload.keys

C21_RefreshResolves == []C21_TokenOfRow /\ [][C21_RowAtRefresh]_vars

C21_Witness ==
    \E p \in Procs :
        /\ Issuing(p, "refresh")
        /\ calls[p].args.refresh_token = issued.refresh
        /\ issued.user.role = "member"
        /\ PayloadOf(calls[p].resp.access).role = "admin"
        /\ calls[p].user.id \in DOMAIN users
        /\ users[calls[p].user.id].role = "admin"

\* C23: an access token submitted as refresh_token to the refresh endpoint is
\* answered 401 "Invalid refresh token" and mints no pair.
IsAccessToken(tok) == tok # EmptyString /\ tok # Garbage /\ "role" \in PayloadOf(tok).keys

C23_AccessTokenRejected ==
    \A p \in Procs :
        (calls[p].op = "refresh" /\ calls[p].pc = "done" /\ IsAccessToken(calls[p].args.refresh_token)) =>
            /\ calls[p].resp.status = StatusUnauthorized
            /\ calls[p].resp.message = "Invalid refresh token"
            /\ calls[p].resp.access = EmptyString
            /\ calls[p].resp.refresh = EmptyString

C24_ReadLive ==
    \A p \in Procs :
        /\ ReadsUser(p, "login") =>
              /\ calls'[p].user \in LiveUsers(users)
              /\ calls'[p].user.email = calls'[p].args.email
              /\ calls'[p].user.status = "active"
              /\ calls'[p].user.password_hash = GenerateFromPassword(calls'[p].args.password)
        /\ ReadsUser(p, "refresh") =>
              /\ ValidateRefreshToken(jwt, calls'[p].args.refresh_token, clock).err = ""
              /\ calls'[p].user \in LiveUsers(users)
              /\ calls'[p].user.id = PayloadOf(calls'[p].args.refresh_token).sub
              /\ calls'[p].user.status = "active"
        /\ (calls'[p].op \in {"login", "refresh"} /\ calls'[p].resp.status = StatusOK /\ calls[p] # calls'[p]) =>
              /\ calls[p].pc = "issue"
              /\ calls'[p].user = calls[p].user
              /\ calls'[p].args = calls[p].args

C24_Answers ==
    \A p \in Procs :
        (calls[p].op \in {"login", "refresh"} /\ calls[p].pc = "done") =>
            IF calls[p].resp.status = StatusOK
            THEN /\ calls[p].resp.access # EmptyString
                 /\ calls[p].resp.refresh # EmptyString
                 /\ PayloadOf(calls[p].resp.access).user_id = calls[p].user.id
                 /\ PayloadOf(calls[p].resp.refresh).sub = calls[p].user.id
                 /\ ~calls[p].user.deleted
                 /\ calls[p].user.status = "active"
            ELSE /\ calls[p].resp.status =
                       IF "body" \in calls[p].args.has THEN StatusUnauthorized ELSE StatusBadRequest
                 /\ calls[p].resp.access = EmptyString
                 /\ calls[p].resp.refresh = EmptyString

C25_TokenDecides ==
    req.kind = "session" =>
        LET tok == BearerToken(req.c.header)
            claims == UnmarshalClaims(PayloadOf(tok))
        IN IF ~HalfOpenWindow(tok, req.now)
           THEN /\ req.c.status = StatusUnauthorized
                /\ req.c.message = "Invalid or expired token"
                /\ req.c.handled = 0
           ELSE IF req.chain = <<RequireAuthMw, RequireAdmin>> /\ claims.Role # "admin"
           THEN /\ req.c.status = StatusForbidden
                /\ req.c.message = "Insufficient permissions"
                /\ req.c.handled = 0
           ELSE /\ req.c.status = StatusOK
                /\ req.c.handled = 1
                /\ req.c.seen = ClaimsValue(claims)

\* A token of an admin is admitted by RequireAdmin after the user was deleted
\* or lost the role.
C25_Witness ==
    /\ req.kind = "session"
    /\ req.chain = <<RequireAuthMw, RequireAdmin>>
    /\ req.c.status = StatusOK
    /\ req.c.handled = 1
    /\ LET id == PayloadOf(BearerToken(req.c.header)).user_id IN
       \/ users[id].deleted
       \/ users[id].role # "admin"
       \/ users[id].status # "active"

\* C29: the expires_at of a register, login or refresh response is the instant
\* in the exp claim of the access token of the same response.
C29_ExpiresAtOfToken ==
    \A p \in Procs :
        (/\ calls[p].op \in {"register", "login", "refresh"}
         /\ calls[p].pc = "done"
         /\ calls[p].resp.access # EmptyString) =>
            calls[p].resp.expires_at = PayloadOf(calls[p].resp.access).exp * TicksPerSecond

\* C22: requests in flight together on one JWT and Middleware instance each
\* end as they would alone: the finished request's context is the one the
\* chain leaves when run at once on the request's header at the time its
\* token was validated; it is answered from its own header, that time and the
\* configuration (401 without a usable token, 403 behind RequireAdmin for
\* another role, else 200 with the handler run once), and at no point does a
\* context hold claims other than those of the request's own token.
OwnClaims(c) == ClaimsValue(UnmarshalClaims(PayloadOf(BearerToken(c.header))))

Usable(c, now) ==
    /\ HasBearerPrefix(c.header)
    /\ BearerToken(c.header) # Garbage
    /\ HalfOpenWindow(BearerToken(c.header), now)

C22_Isolated ==
    \A p \in Procs :
        calls[p].op = "ServeHTTP" =>
            LET c == calls[p].c
                chain == calls[p].chain
            IN /\ \A k \in DOMAIN c.store : k = UserContextKey /\ c.store[k] = OwnClaims(c)
               /\ calls[p].pc = "done" =>
                     /\ c = Run(jwt, chain, 1, NewContext(c.header, EmptyStore), calls[p].now)
                     /\ IF ~Usable(c, calls[p].now)
                        THEN c.status = StatusUnauthorized /\ c.handled = 0 /\ c.store = EmptyStore
                        ELSE IF chain = <<RequireAuthMw, RequireAdmin>> /\ OwnClaims(c).claims.Role # "admin"
                        THEN c.status = StatusForbidden /\ c.handled = 0
                        ELSE c.status = StatusOK /\ c.handled = 1 /\ c.seen = OwnClaims(c)

\* A member's request is refused by RequireAdmin while the request of an
\* admin, in flight on the other connection, has its claims attached.
C22_Witness ==
    \E p, q \in Procs :
        /\ calls[p].op = "ServeHTTP" /\ calls[p].pc = "done"
        /\ calls[p].c.status = StatusForbidden
        /\ calls[q].op = "ServeHTTP" /\ calls[q].pc = "run"
        /\ calls[q].i = 2
        /\ calls[q].chain = <<RequireAuthMw, RequireAdmin>>
        /\ GetUserFromContext(calls[q].c).claims.Role = "admin"

====
